---- MODULE Spec2Model ----
(***************************************************************************)
(* Model of guzhi17/ccache, the int64-keyed LRU cache (CacheInt64).        *)
(*                                                                         *)
(* Callers run the public operations of CacheInt64 one bucket operation or *)
(* channel send at a time; the worker goroutine handles one message of the *)
(* promotables, deletables or control channel per step.  Items live on a   *)
(* heap indexed by allocation order; 0 is the nil item.                    *)
(***************************************************************************)
EXTENDS Integers, Sequences, FiniteSets

\* ------------------------------------------------------------------ bounds
NumCallers == 2      \* concurrent callers
MaxItems == 3        \* items ever allocated by newItemInt64
NumKeys == 2         \* concurrent callers use the keys 0 .. NumKeys-1
MaxTime == 1         \* the clock runs 0 .. MaxTime
MaxWeight == 2       \* Sized values weigh 1 .. MaxWeight
MaxRef == 2          \* cap on refCount raised by TrackingGet
PromoteBuffer == 2   \* capacity of the promotables channel (promoteBuffer)
DeleteBuffer == 1    \* capacity of the deletables channel (deleteBuffer)
MaxMaxSize == 2      \* maxSize ranges over 0 .. MaxMaxSize
MaxDelta == 1        \* increments are 1 .. MaxDelta
MaxSum == 2          \* cap on the value an increment may reach
NumBuckets == 2      \* number of buckets, a power of two as Buckets() requires
TrackItems == 2      \* items created while tracked references are followed

\* -------------------------------------------------------- program constants
GetsPerPromote == 3  \* ConfigureInt64: getsPerPromote
Removed == -2        \* promotions value of an item the worker has dropped

Callers == 1 .. NumCallers
Ids == 1 .. MaxItems
Keys == 0 .. (NumKeys - 1)
\* every key a bucket may hold: a run of distinct sets uses the keys 0, 1, 2, ...
AllKeys == 0 .. ((IF NumKeys > MaxItems THEN NumKeys ELSE MaxItems) - 1)
Weights == 1 .. MaxWeight
TTLs == {-1, 1}
IncrTTLs == {0, 2}
Deltas == 1 .. MaxDelta
Plain == [ptr |-> FALSE, n |-> 0]    \* a value that is no *int64; n tells values apart
Values == {[ptr |-> FALSE, n |-> v] : v \in 0 .. 1}

VARIABLES
    buckets,      \* buckets[b][k]: the item stored under key k in bucket b, 0 = none
    items,        \* the heap: items[i] is the ItemInt64 allocated i-th
    nextId,       \* the next item to allocate
    list,         \* c.list, front (most recent) first, as item ids
    size,         \* c.size
    maxSize,      \* c.maxSize
    itemsToPrune, \* c.itemsToPrune
    tracking,     \* c.tracking
    promotables,  \* the promotables channel
    deletables,   \* the deletables channel
    dropped,      \* the worker's local counter
    callers,      \* each caller's operation in progress
    now,          \* the clock read by time.Now()
    reported,     \* history: sum of the values GetDropped has returned
    gcLeft,       \* history: the last gc sweep left entries in the list
    work          \* the worker goroutine: where it is, and whether Stop has
                  \* closed the promotables channel

vars == <<buckets, items, nextId, list, size, maxSize, itemsToPrune, tracking,
          promotables, deletables, dropped, callers, now, reported, gcLeft, work>>

\* ------------------------------------------------------------------- items
NoItem == [key |-> 0, val |-> Plain, promotions |-> 0, refCount |-> 0,
           expires |-> 0, size |-> 0, element |-> FALSE, deleted |-> FALSE]

\* newItemInt64: size 1 unless the value is Sized; refCount 1 when tracked.
newItemInt64(key, value, weight, expires, track) ==
    [key |-> key, val |-> value, promotions |-> 0,
     refCount |-> IF track THEN 1 ELSE 0,
     expires |-> expires, size |-> weight, element |-> FALSE,
     deleted |-> FALSE]

\* ItemInt64.Expired at time t
Expired(it, t) == it.expires < t

\* ItemInt64.TTL at time t
TTL(it, t) == it.expires - t

\* a threshold one get too early
shouldPromoteAt2(it) == it.promotions + 1 = GetsPerPromote - 1

\* ItemInt64.shouldPromote, after its increment of promotions
shouldPromote(it) == it.promotions + 1 = GetsPerPromote

\* ----------------------------------------------------------------- buckets
RECURSIVE BitAnd(_, _)
BitAnd(a, b) ==
    IF a = 0 \/ b = 0 THEN 0
    ELSE (a % 2) * (b % 2) + 2 * BitAnd(a \div 2, b \div 2)

bucketMask == NumBuckets - 1

\* CacheInt64.bucket
bucket(key) == BitAnd(key, bucketMask)

\* bucketInt64.get
bucketGet(bs, key) == bs[bucket(key)][key]

\* the map update of bucketInt64.set / incrNow
bucketPut(bs, key, id) == [bs EXCEPT ![bucket(key)][key] = id]

\* bucketInt64.delete
bucketDelete(bs, key) == [bs EXCEPT ![bucket(key)][key] = 0]

\* bucketInt64.itemCount
bucketItemCount(bs, b) == Cardinality({k \in AllKeys : bs[b][k] # 0})

RECURSIVE SumCounts(_, _)
SumCounts(bs, b) ==
    IF b < 0 THEN 0 ELSE bucketItemCount(bs, b) + SumCounts(bs, b - 1)

\* CacheInt64.ItemCount
ItemCount == SumCounts(buckets, NumBuckets - 1)

\* ------------------------------------------------------------------- lists
InList(l, id) == \E p \in 1 .. Len(l) : l[p] = id

\* list.Remove: a no-op for an element that is not in this list
Remove(l, id) == SelectSeq(l, LAMBDA x : x # id)

\* list.PushFront
PushFront(l, id) == <<id>> \o l

\* list.MoveToFront: a no-op for an element that is not in this list
MoveToFront(l, id) == IF InList(l, id) THEN <<id>> \o Remove(l, id) ELSE l

Reverse(l) == [p \in 1 .. Len(l) |-> l[Len(l) + 1 - p]]

Take(l, n) == SubSeq(l, 1, IF n < Len(l) THEN n ELSE Len(l))

\* ------------------------------------------------------------------ worker
\* The worker's view of the cache that its handlers change.
Cache == [buckets |-> buckets, items |-> items, list |-> list, size |-> size,
          dropped |-> 0, left |-> gcLeft]

\* a doDelete that does not mark an item it finds unlinked
doDeleteNoMark(st, id) ==
    IF ~st.items[id].element
    THEN [st EXCEPT !.items[id].deleted = TRUE]
    ELSE [st EXCEPT !.size = @ - st.items[id].size,
                    !.list = Remove(@, id),
                    !.items[id].deleted = TRUE]

\* doDelete; .deleted is history: a delete message for the item was handled
doDelete(st, id) ==
    IF ~st.items[id].element
    THEN [st EXCEPT !.items[id].promotions = Removed,
                    !.items[id].deleted = TRUE]
    ELSE [st EXCEPT !.size = @ - st.items[id].size,
                    !.list = Remove(@, id),
                    !.items[id].deleted = TRUE]

\* doPromote: the cache after it
doPromote(st, id) ==
    IF st.items[id].promotions = Removed THEN st
    ELSE IF st.items[id].element
         THEN IF shouldPromote(st.items[id])
              THEN [st EXCEPT !.list = MoveToFront(@, id),
                              !.items[id].promotions = 0]
              ELSE [st EXCEPT !.items[id].promotions = @ + 1]
         ELSE [st EXCEPT !.size = @ + st.items[id].size,
                         !.items[id].element = TRUE,
                         !.list = PushFront(@, id)]

\* doPromote: its result, true for an item it linked
doPromoteLinks(st, id) ==
    st.items[id].promotions # Removed /\ ~st.items[id].element

\* gc: the test that lets a candidate be evicted
gcEvicts(it) == tracking = FALSE \/ it.refCount = 0

\* a sweep that starts at the front of the list
gcCandidatesFront(l) == Take(l, itemsToPrune)

\* gc: the elements the loop visits, in order: from Back() along Prev(),
\* at most itemsToPrune of them
gcCandidates(l) == Take(Reverse(l), itemsToPrune)

\* gc: the body of the loop for an evicted candidate
gcEvict(st, id) ==
    [st EXCEPT !.buckets = bucketDelete(@, st.items[id].key),
               !.size = @ - st.items[id].size,
               !.list = Remove(@, id),
               !.dropped = @ + 1,
               !.items[id].promotions = Removed]

RECURSIVE gcLoop(_, _, _)
gcLoop(st, cand, i) ==
    IF i > Len(cand) THEN st
    ELSE gcLoop(IF gcEvicts(st.items[cand[i]]) THEN gcEvict(st, cand[i]) ELSE st,
                cand, i + 1)

\* gc: the cache after the sweep; .dropped is its return value, .left records
\* whether the sweep left entries in the list
gc(st) ==
    LET r == gcLoop(st, gcCandidates(st.list), 1)
    IN  [r EXCEPT !.left = (r.list # <<>>)]

\* a worker that never sweeps after a promote
workerPromoteNoGc(st, id) == doPromote(st, id)

\* worker, case promotables: doPromote, then gc when over maxSize
workerPromote(st, id) ==
    LET p == doPromote(st, id)
    IN  IF doPromoteLinks(st, id) /\ p.size > maxSize THEN gc(p) ELSE p

\* a worker that never sweeps after setMaxSize
workerSetMaxSizeNoGc(st, n) == st

\* worker, case setMaxSize: gc when the cache is over the new maxSize
workerSetMaxSize(st, n) == IF st.size > n THEN gc(st) ELSE st

\* a getDropped that does not reset the counter
droppedKept(d) == d

\* worker, case getDropped: the counter after the reply
droppedAfterGet(d) == 0

\* ----------------------------------------------------------------- callers
Idle == [pc |-> "idle", op |-> "none", key |-> 0, val |-> Plain, ttl |-> 0,
         delta |-> 0, item |-> 0, existing |-> 0, ret |-> 0,
         err |-> FALSE, loaded |-> FALSE, bkt |-> 0, todo |-> {}, sent |-> {}]

IsIdle(c) == callers[c].pc = "idle"

\* CacheInt64.promote: a send that is dropped when the channel is full
promote(q, id) == IF Len(q) < PromoteBuffer THEN Append(q, id) ELSE q

TypeOK ==
    /\ buckets \in [0 .. NumBuckets - 1 -> [AllKeys -> 0 .. MaxItems]]
    /\ nextId \in 1 .. MaxItems + 1
    /\ \A p \in 1 .. Len(list) : list[p] \in Ids
    /\ maxSize \in 0 .. MaxMaxSize
    /\ tracking \in BOOLEAN
    /\ Len(promotables) <= PromoteBuffer
    /\ Len(deletables) <= DeleteBuffer
    /\ now \in 0 .. MaxTime

\* the worker at the select of its loop, the promotables channel open
Selecting == [pc |-> "select", closed |-> FALSE, cand |-> <<>>]

\* NewCacheInt64, restart: empty buckets, list and channels, the worker started
InitCache ==
    /\ buckets = [b \in 0 .. NumBuckets - 1 |-> [k \in AllKeys |-> 0]]
    /\ items = [i \in Ids |-> NoItem]
    /\ nextId = 1
    /\ list = <<>>
    /\ size = 0
    /\ promotables = <<>>
    /\ deletables = <<>>
    /\ dropped = 0
    /\ callers = [c \in Callers |-> Idle]
    /\ now = 0
    /\ reported = 0
    /\ work = Selecting
    /\ gcLeft = FALSE

\* bucketInt64.set as called by CacheInt64.set: the new item replaces whatever
\* the bucket holds under the key, which is handed back as existing
bucketSet(c, op, key, value, weight, ttl, track) ==
    /\ nextId <= MaxItems
    /\ \A d \in Callers : ~(callers[d].pc = "df_send" /\ callers[d].bkt = bucket(key))
    /\ LET existing == bucketGet(buckets, key)
       IN  /\ items' = [items EXCEPT ![nextId] =
                           newItemInt64(key, value, weight, now + ttl, track)]
           /\ buckets' = bucketPut(buckets, key, nextId)
           /\ nextId' = nextId + 1
           /\ callers' = [callers EXCEPT ![c] =
                  [@ EXCEPT !.pc = IF existing # 0 THEN "set_delete" ELSE "set_promote",
                            !.op = op, !.key = key, !.item = nextId,
                            !.existing = existing]]
    /\ UNCHANGED <<list, size, maxSize, itemsToPrune, tracking, promotables,
                   deletables, dropped, now, reported, gcLeft, work>>

\* CacheInt64.Set / TrackingSet: the call of bucket.set
Set(c, key, weight, ttl, track) ==
    /\ IsIdle(c)
    /\ bucketSet(c, IF track THEN "TrackingSet" ELSE "Set", key, Plain, weight, ttl, track)

\* CacheInt64.set: c.deletables <- existing, which blocks while the channel is full
SetDelete(c) ==
    /\ callers[c].pc = "set_delete"
    /\ Len(deletables) < DeleteBuffer
    /\ deletables' = Append(deletables, callers[c].existing)
    /\ callers' = [callers EXCEPT ![c].pc = "set_promote"]
    /\ UNCHANGED <<buckets, items, nextId, list, size, maxSize, itemsToPrune,
                   tracking, promotables, dropped, now, reported, gcLeft, work>>

\* CacheInt64.set: c.promote(item) and the return.  Set returns nothing,
\* Replace returns true, TrackingSet and Fetch hand the new item back.
SetPromote(c) ==
    /\ callers[c].pc = "set_promote"
    /\ promotables' = promote(promotables, callers[c].item)
    /\ callers' = [callers EXCEPT ![c] =
           IF callers[c].op = "Set" THEN Idle
           ELSE [@ EXCEPT !.pc = "done",
                          !.ret = IF callers[c].op = "Replace" THEN 1
                                  ELSE callers[c].item]]
    /\ UNCHANGED <<buckets, items, nextId, list, size, maxSize, itemsToPrune,
                   tracking, deletables, dropped, now, reported, gcLeft, work>>

\* CacheInt64.Get / TrackingGet: the bucket lookup
Get(c, key, track) ==
    /\ IsIdle(c)
    /\ LET id == bucketGet(buckets, key)
       IN  callers' = [callers EXCEPT ![c] =
               [@ EXCEPT !.pc = IF id = 0 THEN "done" ELSE "get_promote",
                         !.op = IF track THEN "TrackingGet" ELSE "Get",
                         !.key = key, !.item = id, !.ret = id]]
    /\ UNCHANGED <<buckets, items, nextId, list, size, maxSize, itemsToPrune,
                   tracking, promotables, deletables, dropped, now, reported,
                   gcLeft, work>>

\* a Get that promotes expired items too
GetPromoteAlways(c) ==
    /\ callers[c].pc = "get_promote"
    /\ promotables' = promote(promotables, callers[c].item)
    /\ callers' = [callers EXCEPT ![c].pc =
           IF callers[c].op = "TrackingGet" THEN "get_track"
           ELSE "done"]
    /\ UNCHANGED <<buckets, items, nextId, list, size, maxSize, itemsToPrune,
                   tracking, deletables, dropped, now, reported, gcLeft, work>>

\* CacheInt64.Get: promote the item found unless it is expired
GetPromote(c) ==
    /\ callers[c].pc = "get_promote"
    /\ promotables' = IF Expired(items[callers[c].item], now) THEN promotables
                      ELSE promote(promotables, callers[c].item)
    /\ callers' = [callers EXCEPT ![c].pc =
           IF callers[c].op = "TrackingGet" THEN "get_track"
           ELSE "done"]
    /\ UNCHANGED <<buckets, items, nextId, list, size, maxSize, itemsToPrune,
                   tracking, deletables, dropped, now, reported, gcLeft, work>>

\* CacheInt64.TrackingGet: item.track()
GetTrack(c) ==
    /\ callers[c].pc = "get_track"
    /\ items[callers[c].item].refCount < MaxRef
    /\ items' = [items EXCEPT ![callers[c].item].refCount = @ + 1]
    /\ callers' = [callers EXCEPT ![c].pc = "done"]
    /\ UNCHANGED <<buckets, nextId, list, size, maxSize, itemsToPrune, tracking,
                   promotables, deletables, dropped, now, reported, gcLeft, work>>

\* ItemInt64.Release, called once per tracked acquisition
Release(id) ==
    /\ items[id].refCount > 0
    /\ items' = [items EXCEPT ![id].refCount = @ - 1]
    /\ UNCHANGED <<buckets, nextId, list, size, maxSize, itemsToPrune, tracking,
                   promotables, deletables, dropped, callers, now, reported,
                   gcLeft, work>>

\* CacheInt64.Delete: the bucket delete
Delete(c, key) ==
    /\ IsIdle(c)
    /\ \A d \in Callers : ~(callers[d].pc = "df_send" /\ callers[d].bkt = bucket(key))
    /\ LET id == bucketGet(buckets, key)
       IN  /\ buckets' = bucketDelete(buckets, key)
           /\ callers' = [callers EXCEPT ![c] =
                  [@ EXCEPT !.pc = IF id = 0 THEN "done" ELSE "delete_send",
                            !.op = "Delete", !.key = key, !.item = id,
                            !.ret = IF id = 0 THEN 0 ELSE 1]]
    /\ UNCHANGED <<items, nextId, list, size, maxSize, itemsToPrune, tracking,
                   promotables, deletables, dropped, now, reported, gcLeft, work>>

\* CacheInt64.Delete: c.deletables <- item, which blocks while the channel is full
DeleteSend(c) ==
    /\ callers[c].pc = "delete_send"
    /\ Len(deletables) < DeleteBuffer
    /\ deletables' = Append(deletables, callers[c].item)
    /\ callers' = [callers EXCEPT ![c].pc = "done"]
    /\ UNCHANGED <<buckets, items, nextId, list, size, maxSize, itemsToPrune,
                   tracking, promotables, dropped, now, reported, gcLeft, work>>

\* The caller takes the result and is free for its next call.
Return(c) ==
    /\ callers[c].pc = "done"
    /\ callers' = [callers EXCEPT ![c] = Idle]
    /\ UNCHANGED <<buckets, items, nextId, list, size, maxSize, itemsToPrune,
                   tracking, promotables, deletables, dropped, now, reported,
                   gcLeft, work>>

\* time passes
Tick ==
    /\ now < MaxTime
    /\ now' = now + 1
    /\ UNCHANGED <<buckets, items, nextId, list, size, maxSize, itemsToPrune,
                   tracking, promotables, deletables, dropped, callers, reported,
                   gcLeft, work>>

\* ------------------------------------------------------- worker's handlers
\* worker: case item := <-c.promotables
WorkerPromote ==
    /\ work.pc = "select"
    /\ promotables # <<>>
    /\ LET st == workerPromote(Cache, Head(promotables))
       IN  /\ buckets' = st.buckets
           /\ items' = st.items
           /\ list' = st.list
           /\ size' = st.size
           /\ dropped' = dropped + st.dropped
           /\ gcLeft' = st.left
    /\ promotables' = Tail(promotables)
    /\ UNCHANGED <<nextId, maxSize, itemsToPrune, tracking, deletables, callers,
                   now, reported, work>>

\* worker: case item := <-c.deletables
WorkerDelete ==
    /\ work.pc = "select"
    /\ deletables # <<>>
    /\ LET st == doDelete(Cache, Head(deletables))
       IN  /\ items' = st.items
           /\ list' = st.list
           /\ size' = st.size
    /\ deletables' = Tail(deletables)
    /\ UNCHANGED <<buckets, nextId, maxSize, itemsToPrune, tracking, promotables,
                   dropped, callers, now, reported, gcLeft, work>>

\* CacheInt64.GetDropped and the worker's case getDropped: the control channel
\* is unbuffered, so the send, the reply and the reset are one rendezvous
GetDropped(c) ==
    /\ IsIdle(c)
    /\ work.pc = "select"
    /\ callers' = [callers EXCEPT ![c] =
           [@ EXCEPT !.pc = "done", !.op = "GetDropped", !.ret = dropped]]
    /\ dropped' = droppedAfterGet(dropped)
    /\ reported' = reported + dropped
    /\ UNCHANGED <<buckets, items, nextId, list, size, maxSize, itemsToPrune,
                   tracking, promotables, deletables, now, gcLeft, work>>

\* CacheInt64.SetMaxSize and the worker's case setMaxSize
SetMaxSize(c, n) ==
    /\ IsIdle(c)
    /\ work.pc = "select"
    /\ LET st == workerSetMaxSize(Cache, n)
       IN  /\ buckets' = st.buckets
           /\ items' = st.items
           /\ list' = st.list
           /\ size' = st.size
           /\ dropped' = dropped + st.dropped
           /\ gcLeft' = st.left
    /\ maxSize' = n
    /\ UNCHANGED <<nextId, itemsToPrune, tracking, promotables, deletables,
                   callers, now, reported, work>>

\* CacheInt64.Clear and the worker's case clear: every bucket emptied, size 0,
\* a new list; the caller resumes after the reply on done
Clear(c) ==
    /\ IsIdle(c)
    /\ work.pc = "select"
    /\ buckets' = [b \in 0 .. NumBuckets - 1 |-> [k \in AllKeys |-> 0]]
    /\ size' = 0
    /\ list' = <<>>
    /\ callers' = [callers EXCEPT ![c] = [@ EXCEPT !.pc = "done", !.op = "Clear"]]
    /\ UNCHANGED <<items, nextId, maxSize, itemsToPrune, tracking, promotables,
                   deletables, dropped, now, reported, gcLeft, work>>

\* CacheInt64.Replace: the bucket lookup; false for a key that is absent
Replace(c, key, value) ==
    /\ IsIdle(c)
    /\ LET id == bucketGet(buckets, key)
       IN  callers' = [callers EXCEPT ![c] =
               [@ EXCEPT !.pc = IF id = 0 THEN "done" ELSE "replace_set",
                         !.op = "Replace", !.key = key, !.val = value,
                         !.item = id, !.ret = 0]]
    /\ UNCHANGED <<buckets, items, nextId, list, size, maxSize, itemsToPrune,
                   tracking, promotables, deletables, dropped, now, reported, gcLeft, work>>

\* CacheInt64.Replace: c.Set(key, value, item.TTL())
ReplaceSet(c) ==
    /\ callers[c].pc = "replace_set"
    /\ bucketSet(c, "Replace", callers[c].key, callers[c].val, 1,
                 TTL(items[callers[c].item], now), FALSE)

\* CacheInt64.Fetch: the bucket lookup of its c.Get(key)
Fetch(c, key, ttl) ==
    /\ IsIdle(c)
    /\ callers' = [callers EXCEPT ![c] =
           [@ EXCEPT !.pc = "fetch_check", !.op = "Fetch", !.key = key,
                     !.ttl = ttl, !.item = bucketGet(buckets, key)]]
    /\ UNCHANGED <<buckets, items, nextId, list, size, maxSize, itemsToPrune,
                   tracking, promotables, deletables, dropped, now, reported, gcLeft, work>>

\* CacheInt64.Fetch: an unexpired item is promoted by Get and returned;
\* otherwise the loader is called
FetchCheck(c) ==
    /\ callers[c].pc = "fetch_check"
    /\ LET id == callers[c].item
           hit == id # 0 /\ ~Expired(items[id], now)
       IN  /\ promotables' = IF hit THEN promote(promotables, id) ELSE promotables
           /\ callers' = [callers EXCEPT ![c] =
                  IF hit THEN [@ EXCEPT !.pc = "done", !.ret = id]
                  ELSE [@ EXCEPT !.pc = "fetch_load", !.loaded = TRUE]]
    /\ UNCHANGED <<buckets, items, nextId, list, size, maxSize, itemsToPrune,
                   tracking, deletables, dropped, now, reported, gcLeft, work>>

\* a Fetch that stores an entry although its loader failed
FetchErrorCaches(c) ==
    /\ callers[c].pc = "fetch_load"
    /\ nextId <= MaxItems
    /\ items' = [items EXCEPT ![nextId] =
           newItemInt64(callers[c].key, Plain, 1, now + callers[c].ttl, FALSE)]
    /\ buckets' = bucketPut(buckets, callers[c].key, nextId)
    /\ nextId' = nextId + 1
    /\ callers' = [callers EXCEPT ![c] =
           [@ EXCEPT !.pc = "done", !.err = TRUE, !.ret = 0]]
    /\ UNCHANGED <<list, size, maxSize, itemsToPrune, tracking, promotables,
                   deletables, dropped, now, reported, gcLeft, work>>

\* CacheInt64.Fetch: the loader failed; its error is returned, nothing is set
FetchError(c) ==
    /\ callers[c].pc = "fetch_load"
    /\ callers' = [callers EXCEPT ![c] =
           [@ EXCEPT !.pc = "done", !.err = TRUE, !.ret = 0]]
    /\ UNCHANGED <<buckets, items, nextId, list, size, maxSize, itemsToPrune,
                   tracking, promotables, deletables, dropped, now, reported, gcLeft, work>>

\* CacheInt64.Fetch: the loader returned a value; c.set(key, value, duration, false)
FetchSet(c) ==
    /\ callers[c].pc = "fetch_load"
    /\ bucketSet(c, "Fetch", callers[c].key, Plain, 1, callers[c].ttl, FALSE)

\* CacheInt64.Incr / IncrPromote: the call
Incr(c, op, key, n, ttl) ==
    /\ IsIdle(c)
    /\ callers' = [callers EXCEPT ![c] =
           [@ EXCEPT !.pc = "incr_bucket", !.op = op, !.key = key,
                     !.delta = n, !.ttl = ttl]]
    /\ UNCHANGED <<buckets, items, nextId, list, size, maxSize, itemsToPrune,
                   tracking, promotables, deletables, dropped, now, reported, gcLeft, work>>

\* bucketInt64.incrNow: the test for adding to the existing item
incrHit(it, tm) == it.expires > tm /\ it.val.ptr

\* bucketInt64.incr -> incrNow, under the bucket's write lock: add to an
\* unexpired *int64 item, or store a new item holding the increment
IncrBucket(c) ==
    /\ callers[c].pc = "incr_bucket"
    /\ \A d \in Callers :
          ~(callers[d].pc = "df_send" /\ callers[d].bkt = bucket(callers[c].key))
    /\ LET key == callers[c].key
           existing == bucketGet(buckets, key)
           hit == existing # 0 /\ incrHit(items[existing], now)
       IN  IF hit
           THEN /\ items[existing].val.n + callers[c].delta <= MaxSum
                /\ items' = [items EXCEPT ![existing].val.n = @ + callers[c].delta]
                /\ callers' = [callers EXCEPT ![c] =
                       [@ EXCEPT !.pc = "incr_promote", !.item = 0,
                                 !.existing = existing,
                                 !.ret = items[existing].val.n + callers[c].delta]]
                /\ UNCHANGED <<buckets, nextId>>
           ELSE /\ nextId <= MaxItems
                /\ items' = [items EXCEPT ![nextId] =
                       newItemInt64(key, [ptr |-> TRUE, n |-> callers[c].delta], 1,
                                    now + callers[c].ttl, FALSE)]
                /\ buckets' = bucketPut(buckets, key, nextId)
                /\ nextId' = nextId + 1
                /\ callers' = [callers EXCEPT ![c] =
                       [@ EXCEPT !.pc = "incr_promote", !.item = nextId,
                                 !.existing = 0, !.ret = callers[c].delta]]
    /\ UNCHANGED <<list, size, maxSize, itemsToPrune, tracking, promotables,
                   deletables, dropped, now, reported, gcLeft, work>>

\* an increment that promotes only the items it creates
IncrDoneNewOnly(c) ==
    /\ callers[c].pc = "incr_promote"
    /\ promotables' = IF callers[c].item # 0
                      THEN promote(promotables, callers[c].item)
                      ELSE promotables
    /\ callers' = [callers EXCEPT ![c].pc = "done"]
    /\ UNCHANGED <<buckets, items, nextId, list, size, maxSize, itemsToPrune,
                   tracking, deletables, dropped, now, reported, gcLeft, work>>

\* CacheInt64.Incr / IncrPromote: the promote after bucket.incr.  Incr promotes
\* only a new item; IncrPromote also promotes the existing one
IncrDone(c) ==
    /\ callers[c].pc = "incr_promote"
    /\ LET id == IF callers[c].item # 0 THEN callers[c].item
                 ELSE IF callers[c].op = "IncrPromote" THEN callers[c].existing
                 ELSE 0
       IN  promotables' = IF id # 0 THEN promote(promotables, id) ELSE promotables
    /\ callers' = [callers EXCEPT ![c].pc = "done"]
    /\ UNCHANGED <<buckets, items, nextId, list, size, maxSize, itemsToPrune,
                   tracking, deletables, dropped, now, reported, gcLeft, work>>

\* ------------------------------------------------- bulk delete and locks
\* A caller inside deleteFunc's first loop holds the read lock of its bucket.
RLocked(b) == \E c \in Callers : callers[c].pc = "df_send" /\ callers[c].bkt = b

\* The worker is inside gc, at bucket.delete of a candidate it evicts, and
\* that bucket is read-locked: b.Lock() waits.
WorkerWaits(b) ==
    /\ work.pc = "gc"
    /\ work.cand # <<>>
    /\ gcEvicts(items[Head(work.cand)])
    /\ bucket(items[Head(work.cand)].key) = b
    /\ RLocked(b)

\* deletePrefix: the keys it matches
matches(key, prefix) == BitAnd(key, prefix) = prefix

\* CacheInt64.DeletePrefix: the loop over the buckets starts
DeletePrefix(c, prefix) ==
    /\ IsIdle(c)
    /\ callers' = [callers EXCEPT ![c] =
           [@ EXCEPT !.pc = "df_lock", !.op = "DeletePrefix", !.key = prefix,
                     !.bkt = 0, !.ret = 0]]
    /\ UNCHANGED <<buckets, items, nextId, list, size, maxSize, itemsToPrune,
                   tracking, promotables, deletables, dropped, now, reported,
                   gcLeft, work>>

\* deleteFunc: b.RLock(), which waits behind a writer that is waiting; the
\* items of the bucket that match are the ones the loop will send
DfRLock(c) ==
    /\ callers[c].pc = "df_lock"
    /\ ~WorkerWaits(callers[c].bkt)
    /\ callers' = [callers EXCEPT ![c] =
           [@ EXCEPT !.pc = "df_send",
                     !.todo = {buckets[callers[c].bkt][k] : k \in
                                  {k \in AllKeys :
                                      /\ buckets[callers[c].bkt][k] # 0
                                      /\ matches(k, callers[c].key)}},
                     !.sent = {}]]
    /\ UNCHANGED <<buckets, items, nextId, list, size, maxSize, itemsToPrune,
                   tracking, promotables, deletables, dropped, now, reported,
                   gcLeft, work>>

\* deleteFunc: deletables <- item under the read lock, in the map's order,
\* which blocks while the channel is full
DfSend(c) ==
    /\ callers[c].pc = "df_send"
    /\ Len(deletables) < DeleteBuffer
    /\ \E i \in callers[c].todo :
          /\ deletables' = Append(deletables, i)
          /\ callers' = [callers EXCEPT ![c] =
                 [@ EXCEPT !.todo = @ \ {i}, !.sent = @ \cup {i}]]
    /\ UNCHANGED <<buckets, items, nextId, list, size, maxSize, itemsToPrune,
                   tracking, promotables, dropped, now, reported, gcLeft, work>>

\* DeleteFunc: on to the next bucket, or the return of the count
nextBucket(r) ==
    IF r.bkt + 1 < NumBuckets
    THEN [r EXCEPT !.pc = "df_lock", !.bkt = @ + 1, !.sent = {}]
    ELSE [r EXCEPT !.pc = "done", !.sent = {}]

\* deleteFunc: b.RUnlock() after the loop; with no match the write lock is
\* not taken
DfRUnlock(c) ==
    /\ callers[c].pc = "df_send"
    /\ callers[c].todo = {}
    /\ callers' = [callers EXCEPT ![c] =
           IF callers[c].sent = {} THEN nextBucket(@)
           ELSE [@ EXCEPT !.pc = "df_delete"]]
    /\ UNCHANGED <<buckets, items, nextId, list, size, maxSize, itemsToPrune,
                   tracking, promotables, deletables, dropped, now, reported,
                   gcLeft, work>>

\* deleteFunc: under the write lock, delete(lookup, item.key) for each item sent
DfDelete(c) ==
    /\ callers[c].pc = "df_delete"
    /\ ~RLocked(callers[c].bkt)
    /\ buckets' = [buckets EXCEPT ![callers[c].bkt] =
           [k \in AllKeys |->
               IF \E i \in callers[c].sent : items[i].key = k THEN 0 ELSE @[k]]]
    /\ callers' = [callers EXCEPT ![c] =
           nextBucket([@ EXCEPT !.ret = @ + Cardinality(callers[c].sent)])]
    /\ UNCHANGED <<items, nextId, list, size, maxSize, itemsToPrune, tracking,
                   promotables, deletables, dropped, now, reported, gcLeft, work>>

\* worker: case item := <-c.promotables, up to the call of gc, whose loop
\* then runs one candidate at a time
WorkerPromoteStart ==
    /\ work.pc = "select"
    /\ promotables # <<>>
    /\ LET id == Head(promotables)
           st == doPromote(Cache, id)
       IN  /\ items' = st.items
           /\ list' = st.list
           /\ size' = st.size
           /\ work' = IF doPromoteLinks(Cache, id) /\ st.size > maxSize
                      THEN [work EXCEPT !.pc = "gc", !.cand = gcCandidates(st.list)]
                      ELSE work
    /\ promotables' = Tail(promotables)
    /\ UNCHANGED <<buckets, nextId, maxSize, itemsToPrune, tracking, deletables,
                   dropped, callers, now, reported, gcLeft>>

\* gc: one turn of the loop; an eviction takes the write lock of the
\* candidate's bucket
WorkerGcStep ==
    /\ work.pc = "gc"
    /\ work.cand # <<>>
    /\ LET id == Head(work.cand)
       IN  IF gcEvicts(items[id])
           THEN /\ ~RLocked(bucket(items[id].key))
                /\ LET st == gcEvict(Cache, id)
                   IN  /\ buckets' = st.buckets
                       /\ items' = st.items
                       /\ list' = st.list
                       /\ size' = st.size
                       /\ dropped' = dropped + 1
           ELSE UNCHANGED <<buckets, items, list, size, dropped>>
    /\ work' = [work EXCEPT !.cand = Tail(@)]
    /\ UNCHANGED <<nextId, maxSize, itemsToPrune, tracking, promotables,
                   deletables, callers, now, reported, gcLeft>>

\* gc: the loop is over, the worker is back at its select
WorkerGcDone ==
    /\ work.pc = "gc"
    /\ work.cand = <<>>
    /\ work' = [work EXCEPT !.pc = "select"]
    /\ gcLeft' = (list # <<>>)
    /\ UNCHANGED <<buckets, items, nextId, list, size, maxSize, itemsToPrune,
                   tracking, promotables, deletables, dropped, callers, now,
                   reported>>

\* ------------------------------------------------------------- shutdown
\* CacheInt64.Stop: close(c.promotables), then wait on the control channel
Stop(c) ==
    /\ IsIdle(c)
    /\ ~work.closed
    /\ work' = [work EXCEPT !.closed = TRUE]
    /\ callers' = [callers EXCEPT ![c] = [@ EXCEPT !.pc = "stop_wait", !.op = "Stop"]]
    /\ UNCHANGED <<buckets, items, nextId, list, size, maxSize, itemsToPrune,
                   tracking, promotables, deletables, dropped, now, reported,
                   gcLeft>>

\* worker: the receive from the closed and empty promotables channel gives
\* ok == false: goto drain
WorkerClosed ==
    /\ work.pc = "select"
    /\ work.closed
    /\ promotables = <<>>
    /\ work' = [work EXCEPT !.pc = "drain"]
    /\ UNCHANGED <<buckets, items, nextId, list, size, maxSize, itemsToPrune,
                   tracking, promotables, deletables, dropped, callers, now,
                   reported, gcLeft>>

\* worker, drain: case item := <-c.deletables
WorkerDrain ==
    /\ work.pc = "drain"
    /\ deletables # <<>>
    /\ LET st == doDelete(Cache, Head(deletables))
       IN  /\ items' = st.items
           /\ list' = st.list
           /\ size' = st.size
    /\ deletables' = Tail(deletables)
    /\ UNCHANGED <<buckets, nextId, maxSize, itemsToPrune, tracking, promotables,
                   dropped, callers, now, reported, gcLeft, work>>

\* a drain that gives up with delete messages still queued
WorkerExitEarly ==
    /\ work.pc = "drain"
    /\ work' = [work EXCEPT !.pc = "exited"]
    /\ UNCHANGED <<buckets, items, nextId, list, size, maxSize, itemsToPrune,
                   tracking, promotables, deletables, dropped, callers, now,
                   reported, gcLeft>>

\* worker, drain: default: close(c.deletables), return, and the deferred
\* close(c.control)
WorkerExit ==
    /\ work.pc = "drain"
    /\ deletables = <<>>
    /\ work' = [work EXCEPT !.pc = "exited"]
    /\ UNCHANGED <<buckets, items, nextId, list, size, maxSize, itemsToPrune,
                   tracking, promotables, deletables, dropped, callers, now,
                   reported, gcLeft>>

\* CacheInt64.Stop: <-c.control returns once the worker has closed the channel
StopReturn(c) ==
    /\ callers[c].pc = "stop_wait"
    /\ work.pc = "exited"
    /\ callers' = [callers EXCEPT ![c].pc = "done"]
    /\ UNCHANGED <<buckets, items, nextId, list, size, maxSize, itemsToPrune,
                   tracking, promotables, deletables, dropped, now, reported,
                   gcLeft, work>>

\* ---------------------------------------------------------- specifications
PruneChoices == {1, 10}

\* The first caller runs the operations that write; the others run beside it.
Writers == {c \in Callers : c = 1}
Others == Callers \ Writers

\* One caller sets the distinct keys 0, 1, 2, ... one after the other, with
\* no reads, weight 1 and tracking off; sweeps come from the sets and from
\* lowering maxSize.
InitSeq ==
    /\ InitCache
    /\ tracking = FALSE
    /\ itemsToPrune \in PruneChoices
    /\ maxSize = 2

NextSeq ==
    \/ \E c \in Writers : Set(c, nextId - 1, 1, 1, FALSE)
    \/ \E c \in Writers : SetPromote(c)
    \/ \E c \in Writers, n \in 0 .. maxSize - 1 : SetMaxSize(c, n)
    \/ \E c \in Writers : GetDropped(c)
    \/ \E c \in Writers : Return(c)
    \/ WorkerPromote

SpecSeq == InitSeq /\ [][NextSeq]_vars

\* Sets, deletes and the control messages: what getDropped reports.
Init ==
    /\ InitCache
    /\ tracking = FALSE
    /\ itemsToPrune \in PruneChoices
    /\ maxSize \in 1 .. MaxMaxSize

Next ==
    \/ \E c \in Writers, k \in Keys : Set(c, k, 1, 1, FALSE)
    \/ \E c \in Writers : SetDelete(c)
    \/ \E c \in Writers : SetPromote(c)
    \/ \E c \in Writers, k \in Keys : Delete(c, k)
    \/ \E c \in Writers : DeleteSend(c)
    \/ \E c \in Callers : Return(c)
    \/ \E c \in Others : GetDropped(c)
    \/ \E c \in Others, n \in 0 .. MaxMaxSize : SetMaxSize(c, n)
    \/ \E c \in Others : Clear(c)
    \/ WorkerPromote
    \/ WorkerDelete

Spec == Init /\ [][Next]_vars

\* Sets and gets: promotion of linked items.
InitGet ==
    /\ InitCache
    /\ tracking = FALSE
    /\ itemsToPrune \in PruneChoices
    /\ maxSize \in 1 .. MaxMaxSize

NextGet ==
    \/ \E c \in Writers, k \in Keys : Set(c, k, 1, 1, FALSE)
    \/ \E c \in Writers : SetDelete(c)
    \/ \E c \in Writers : SetPromote(c)
    \/ \E c \in Others, k \in Keys : Get(c, k, FALSE)
    \/ \E c \in Others : GetPromote(c)
    \/ \E c \in Callers : Return(c)
    \/ WorkerPromote
    \/ WorkerDelete

SpecGet == InitGet /\ [][NextGet]_vars

\* Tracking on or off, weighted values, gets, setMaxSize: the size bound and
\* the sweep's treatment of referenced items. At most TrackItems items are
\* created.
InitTrack ==
    /\ InitCache
    /\ tracking \in BOOLEAN
    /\ itemsToPrune \in PruneChoices
    /\ maxSize \in 1 .. MaxMaxSize

NextTrack ==
    \/ \E c \in Writers, k \in Keys, w \in Weights, t \in {FALSE, tracking} :
          nextId <= TrackItems /\ Set(c, k, w, 1, t)
    \/ \E c \in Writers : SetDelete(c)
    \/ \E c \in Writers : SetPromote(c)
    \/ \E c \in Writers, k \in Keys : Get(c, k, tracking)
    \/ \E c \in Writers : GetPromote(c)
    \/ \E c \in Writers : GetTrack(c)
    \/ \E id \in Ids : Release(id)
    \/ \E c \in Callers : Return(c)
    \/ \E c \in Others, n \in 0 .. MaxMaxSize : SetMaxSize(c, n)
    \/ WorkerPromote
    \/ WorkerDelete

SpecTrack == InitTrack /\ [][NextTrack]_vars

\* Fetch, with loaders that fail or succeed, while time passes.
InitOps ==
    /\ InitCache
    /\ tracking = FALSE
    /\ itemsToPrune = 10
    /\ maxSize = MaxMaxSize

NextFetch ==
    \/ \E c \in Writers, k \in Keys, t \in TTLs : Fetch(c, k, t)
    \/ \E c \in Writers : FetchCheck(c)
    \/ \E c \in Writers : FetchError(c)
    \/ \E c \in Writers : FetchSet(c)
    \/ \E c \in Writers : SetDelete(c)
    \/ \E c \in Writers : SetPromote(c)
    \/ \E c \in Writers : Return(c)
    \/ Tick
    \/ WorkerPromote
    \/ WorkerDelete

SpecFetch == InitOps /\ [][NextFetch]_vars

\* Increments of both kinds, by concurrent callers, while time passes.
NextIncr ==
    \/ \E c \in Writers, k \in Keys, n \in Deltas, t \in IncrTTLs :
          Incr(c, "Incr", k, n, t) \/ Incr(c, "IncrPromote", k, n, t)
    \/ \E c \in Others, k \in Keys, n \in Deltas : Incr(c, "Incr", k, n, 2)
    \/ \E c \in Callers : IncrBucket(c)
    \/ \E c \in Callers : IncrDone(c)
    \/ \E c \in Callers : Return(c)
    \/ Tick
    \/ WorkerPromote

SpecIncr == InitOps /\ [][NextIncr]_vars

\* Replace beside set and delete.
NextReplace ==
    \/ \E c \in Writers, k \in Keys, t \in TTLs : Set(c, k, 1, t, FALSE)
    \/ \E c \in Writers, k \in Keys, v \in Values : Replace(c, k, v)
    \/ \E c \in Writers : ReplaceSet(c)
    \/ \E c \in Writers : SetDelete(c)
    \/ \E c \in Writers : SetPromote(c)
    \/ \E c \in Others, k \in Keys : Delete(c, k)
    \/ \E c \in Others : DeleteSend(c)
    \/ \E c \in Callers : Return(c)
    \/ Tick
    \/ WorkerPromote
    \/ WorkerDelete

SpecReplace == InitOps /\ [][NextReplace]_vars

\* Gets of entries that are expired or not, while time passes.
NextExpire ==
    \/ \E c \in Writers, k \in Keys, t \in TTLs : Set(c, k, 1, t, FALSE)
    \/ \E c \in Writers : SetDelete(c)
    \/ \E c \in Writers : SetPromote(c)
    \/ \E c \in Others, k \in Keys : Get(c, k, FALSE)
    \/ \E c \in Others : GetPromote(c)
    \/ \E c \in Callers : Return(c)
    \/ Tick
    \/ WorkerPromote
    \/ WorkerDelete

SpecExpire == InitOps /\ [][NextExpire]_vars

\* One caller sets, deletes and clears; the worker follows behind.
NextClear ==
    \/ \E c \in Writers, k \in Keys : Set(c, k, 1, 1, FALSE)
    \/ \E c \in Writers : SetDelete(c)
    \/ \E c \in Writers : SetPromote(c)
    \/ \E c \in Writers, k \in Keys : Delete(c, k)
    \/ \E c \in Writers : DeleteSend(c)
    \/ \E c \in Writers : Clear(c)
    \/ \E c \in Writers : Return(c)
    \/ WorkerPromote
    \/ WorkerDelete

SpecClear == Init /\ [][NextClear]_vars

\* One caller sets and deletes, then stops the cache; nobody else sends.
\* Once promotables is closed the caller starts nothing that would send.
NextStop ==
    \/ \E c \in Writers, k \in Keys : ~work.closed /\ Set(c, k, 1, 1, FALSE)
    \/ \E c \in Writers : SetDelete(c)
    \/ \E c \in Writers : SetPromote(c)
    \/ \E c \in Writers, k \in Keys : ~work.closed /\ Delete(c, k)
    \/ \E c \in Writers : DeleteSend(c)
    \/ \E c \in Writers : callers[c].op # "Stop" /\ Return(c)
    \/ \E c \in Writers : Stop(c)
    \/ \E c \in Writers : StopReturn(c)
    \/ WorkerPromote
    \/ WorkerDelete
    \/ WorkerClosed
    \/ WorkerDrain
    \/ WorkerExit

SpecStop == Init /\ [][NextStop]_vars

\* The worker goroutine is scheduled as long as it can take a step, its
\* select takes every case that stays ready, and the caller waiting in Stop
\* resumes once the control channel is closed.
SpecStopFair ==
    /\ SpecStop
    /\ WF_vars(WorkerPromote)
    /\ WF_vars(WorkerDelete)
    /\ WF_vars(WorkerClosed)
    /\ WF_vars(WorkerDrain)
    /\ WF_vars(WorkerExit)
    /\ \A c \in Writers : WF_vars(StopReturn(c))

\* Sets beside DeletePrefix, the worker's sweep one candidate at a time.
NextBulk ==
    \/ \E c \in Writers, k \in AllKeys : Set(c, k, 1, 1, FALSE)
    \/ \E c \in Writers : SetDelete(c)
    \/ \E c \in Writers : SetPromote(c)
    \/ \E c \in Others, p \in Keys : DeletePrefix(c, p)
    \/ \E c \in Others : DfRLock(c)
    \/ \E c \in Others : DfSend(c)
    \/ \E c \in Others : DfRUnlock(c)
    \/ \E c \in Others : DfDelete(c)
    \/ \E c \in Callers : Return(c)
    \/ WorkerPromoteStart
    \/ WorkerGcStep
    \/ WorkerGcDone
    \/ WorkerDelete

SpecBulk == Init /\ [][NextBulk]_vars

\* ------------------------------------------------------------------ claims
\* item i has been evicted by a gc sweep: only gc marks a linked item removed
Evicted(i) == items[i].element /\ items[i].promotions = Removed

EvictedSet == {i \in Ids : Evicted(i)}

\* The caller has set three distinct keys A, B, C (items 1, 2, 3) with
\* maxSize 2 and the worker has handled the promote message of each.
ThreeSetsHandled ==
    /\ maxSize = 2
    /\ nextId = 4
    /\ promotables = <<>>
    /\ \A i \in 1 .. 3 : items[i].element
    /\ \A c \in Writers : callers[c].pc \in {"idle", "done"}

\* C1, as claimed: with maxSize 2 and itemsToPrune 10, after set(A), set(B),
\* set(C) and the three promote messages, exactly A has been evicted,
\* getDropped returns 1 and itemCount is 2.
C1_OneEviction ==
    (ThreeSetsHandled /\ itemsToPrune = 10) =>
        /\ EvictedSet = {1}
        /\ dropped + reported = 1
        /\ ItemCount = 2

\* C1, amended: with itemsToPrune 10 the sweep started by the third promote
\* evicts every candidate it visits, A, B and C: the getDropped calls return 3
\* in all and itemCount is 0.  With itemsToPrune 1 it evicts A alone: the
\* getDropped calls return 1 in all, itemCount is 2 and B and C are still in
\* their buckets.
C1_SweepEvictsBatch ==
    ThreeSetsHandled =>
        /\ itemsToPrune = 10 =>
              /\ EvictedSet = {1, 2, 3}
              /\ dropped + reported = 3
              /\ ItemCount = 0
        /\ itemsToPrune = 1 =>
              /\ EvictedSet = {1}
              /\ dropped + reported = 1
              /\ ItemCount = 2
              /\ bucketGet(buckets, 1) = 2 /\ bucketGet(buckets, 2) = 3

\* C1 witness: after the three sets with itemsToPrune 10, getDropped has
\* returned 3.
C1_Witness ==
    /\ ThreeSetsHandled
    /\ itemsToPrune = 10
    /\ \E c \in Writers : /\ callers[c].pc = "done"
                          /\ callers[c].op = "GetDropped"
                          /\ callers[c].ret = 3

\* C4: after one caller's sets of distinct keys k1, k2, ... without reads, the
\* sweeps evict in insertion order: no kj has been evicted while a ki with
\* i < j is still linked in the list.
C4_EvictsOldestFirst ==
    \A i \in Ids, j \in Ids :
        (i < j /\ j < nextId /\ Evicted(j)) => ~InList(list, i)

\* C4 witness: a sweep has evicted k1 and left k2 linked.
C4_Witness == Evicted(1) /\ InList(list, 2)

\* C5: a promote message for an item that is linked in the list leaves size
\* unchanged; while its counter is below getsPerPromote - 1 (the first and the
\* second message, from counter 0) the list keeps its order and the counter
\* goes up by one; the next message (the third) moves the item to the front
\* and resets the counter to 0.
C5_PromotionThreshold ==
    [][WorkerPromote =>
          LET id == Head(promotables)
              p == items[id].promotions
          IN  InList(list, id) =>
                 /\ size' = size
                 /\ p \in 0 .. GetsPerPromote - 1
                 /\ p < GetsPerPromote - 1 =>
                       list' = list /\ items'[id].promotions = p + 1
                 /\ p = GetsPerPromote - 1 =>
                       /\ list' = <<id>> \o SelectSeq(list, LAMBDA x : x # id)
                       /\ items'[id].promotions = 0]_vars

\* C5 witness: two promote messages have been handled for a linked item that
\* is not at the front, and the third is next in the channel.
C5_Witness ==
    /\ promotables # <<>>
    /\ InList(list, Head(promotables))
    /\ list[1] # Head(promotables)
    /\ items[Head(promotables)].promotions = 2

\* C6: the values getDropped has returned, together with the count not yet
\* fetched, are exactly the entries evicted by gc sweeps: every eviction is
\* reported once, a call with no eviction since the last returns 0, and
\* deletes, replacements and clear are not counted.
C6_DroppedAccounting ==
    /\ reported + dropped = Cardinality(EvictedSet)
    /\ \A c \in Callers :
          (callers[c].pc = "done" /\ callers[c].op = "GetDropped") =>
              callers[c].ret <= reported

\* C6 witness: getDropped returns 0 after evictions were reported earlier and
\* an item was removed by a delete message since.
C6_Witness ==
    /\ \E c \in Callers : /\ callers[c].pc = "done"
                          /\ callers[c].op = "GetDropped"
                          /\ callers[c].ret = 0
    /\ reported >= 1
    /\ \E i \in Ids : items[i].element /\ ~Evicted(i) /\ ~InList(list, i)

RECURSIVE SumSizes(_)
SumSizes(S) ==
    IF S = {} THEN 0
    ELSE LET i == CHOOSE x \in S : TRUE IN items[i].size + SumSizes(S \ {i})

\* the weight of the entries that hold a reference
PinnedWeight == SumSizes({i \in Ids : i < nextId /\ items[i].refCount > 0})

Stored(bs, i) == bucketGet(bs, items[i].key) = i

\* the worker runs a sweep in this step, over these candidates
SweepStep(cand) ==
    \/ /\ WorkerPromote
       /\ doPromoteLinks(Cache, Head(promotables))
       /\ doPromote(Cache, Head(promotables)).size > maxSize
       /\ cand = gcCandidates(doPromote(Cache, Head(promotables)).list)
    \/ /\ \E c \in Callers, n \in 0 .. MaxMaxSize : SetMaxSize(c, n) /\ size > n
       /\ cand = gcCandidates(list)

\* C3: with tracking on, a sweep removes an entry whose refCount is above 0
\* neither from its bucket nor from the list, and it evicts every candidate
\* it reaches whose refCount is 0.
C3_TrackingImmunity ==
    [][\A cand \in {gcCandidates(list)} \cup
                   {gcCandidates(PushFront(list, i)) : i \in Ids} :
          (tracking /\ SweepStep(cand)) =>
              \A i \in Ids :
                 /\ (i < nextId /\ items[i].refCount > 0) =>
                       /\ Stored(buckets, i) => Stored(buckets', i)
                       /\ InList(list, i) => InList(list', i)
                 /\ (InList(cand, i) /\ items[i].refCount = 0) =>
                       ~InList(list', i)]_vars

\* C7: a fetch whose loader fails returns the error and no entry; none of its
\* steps changes a bucket or enqueues a promote or delete message, so a key
\* that was absent stays absent; the loader is called only for a key that is
\* absent or whose entry is expired; an unexpired entry is returned as it is,
\* without a call of the loader.
C7_FetchFailure ==
    /\ [](\A c \in Callers :
            LET r == callers[c]
            IN  /\ r.pc = "fetch_load" =>
                      (r.item = 0 \/ Expired(items[r.item], now))
                /\ (r.pc = "done" /\ r.op = "Fetch" /\ r.err) =>
                      /\ r.ret = 0
                      /\ r.loaded
                      /\ r.item = 0 => bucketGet(buckets, r.key) = 0
                /\ (r.pc = "done" /\ r.op = "Fetch" /\ ~r.loaded) =>
                      (~r.err /\ r.item # 0 /\ r.ret = r.item))
    /\ [][\A c \in Callers :
            /\ ( /\ callers'[c] # callers[c]
                 /\ callers'[c].op = "Fetch"
                 /\ \/ callers'[c].pc \in {"fetch_check", "fetch_load"}
                    \/ callers'[c].pc = "done" /\ callers'[c].err )
               => /\ buckets' = buckets
                  /\ promotables' = promotables
                  /\ deletables' = deletables
            /\ ( /\ callers[c].pc = "fetch_check"
                 /\ callers'[c] # callers[c]
                 /\ callers[c].item # 0
                 /\ ~Expired(items[callers[c].item], now) )
               => /\ callers'[c].pc = "done"
                  /\ callers'[c].ret = callers[c].item
                  /\ ~callers'[c].loaded]_vars

\* C7 witness: a fetch found an expired entry, its loader failed, and the
\* fetch has returned the error with the entry still in its bucket.
C7_Witness ==
    \E c \in Callers :
        /\ callers[c].pc = "done" /\ callers[c].op = "Fetch" /\ callers[c].err
        /\ callers[c].item # 0
        /\ bucketGet(buckets, callers[c].key) = callers[c].item

\* C8: an increment of a key that is missing or expired stores a new entry
\* holding the increment, with deadline now + ttl, and returns the increment;
\* an increment of an unexpired *int64 entry adds to the stored value under
\* the bucket's lock, returns the sum and keeps the deadline, so that no
\* concurrent increment is lost.
C8_Increment ==
    [][\A c \in Callers :
          IncrBucket(c) =>
             LET k == callers[c].key
                 d == callers[c].delta
                 e == bucketGet(buckets, k)
                 new == bucketGet(buckets', k)
             IN  IF e # 0 /\ ~Expired(items[e], now) /\ items[e].val.ptr
                 THEN /\ new = e
                      /\ items'[e].val.n = items[e].val.n + d
                      /\ items'[e].expires = items[e].expires
                      /\ callers'[c].ret = items[e].val.n + d
                 ELSE /\ new # 0 /\ new # e
                      /\ items'[new].val = [ptr |-> TRUE, n |-> d]
                      /\ items'[new].expires = now + callers[c].ttl
                      /\ callers'[c].ret = d]_vars

\* C9: IncrPromote on an existing unexpired *int64 entry adds the increment
\* and rewrites the entry's deadline to the time of the call + ttl.
C9_IncrementRenews ==
    [][\A c \in Callers :
          (IncrBucket(c) /\ callers[c].op = "IncrPromote") =>
             LET e == bucketGet(buckets, callers[c].key)
             IN  (e # 0 /\ items[e].expires > now /\ items[e].val.ptr) =>
                    /\ items'[e].val.n = items[e].val.n + callers[c].delta
                    /\ items'[e].expires = now + callers[c].ttl]_vars

\* C10: replace of an absent key returns false, changes no bucket and sends
\* no message; replace of a present key stores a new entry holding the value,
\* with the deadline of the entry it replaces, and returns true; it never
\* stores under a key that is absent at the moment it stores.
C10_Replace ==
    [][\A c \in Callers :
          /\ (\E k \in Keys, v \in Values : Replace(c, k, v) /\ bucketGet(buckets, k) = 0)
                => /\ callers'[c].pc = "done" /\ callers'[c].ret = 0
                   /\ buckets' = buckets
                   /\ promotables' = promotables /\ deletables' = deletables
          /\ ReplaceSet(c) =>
                LET old == bucketGet(buckets, callers[c].key)
                    new == bucketGet(buckets', callers[c].key)
                IN  /\ old # 0
                    /\ new # 0 /\ new # old
                    /\ items'[new].val = callers[c].val
                    /\ items'[new].expires = items[old].expires]_vars

\* C11: get returns the item stored under the key, expired or not (an expired
\* one has a negative TTL), and nothing only when the bucket has no mapping;
\* it passes the item to promote (a send that is dropped when the channel is
\* full) if and only if the item is found and not expired; no step of it
\* changes a bucket.
C11_Get ==
    [][\A c \in Callers :
          /\ (\E k \in Keys : Get(c, k, FALSE)) =>
                /\ callers'[c].ret = bucketGet(buckets, callers'[c].key)
                /\ (callers'[c].pc = "done") = (callers'[c].ret = 0)
                /\ buckets' = buckets
                /\ promotables' = promotables
          /\ GetPromote(c) =>
                LET it == callers[c].item
                IN  /\ buckets' = buckets
                    /\ callers'[c].ret = it
                    /\ Expired(items[it], now) =>
                          /\ TTL(items[it], now) < 0
                          /\ promotables' = promotables
                    /\ ~Expired(items[it], now) =>
                          promotables' = IF Len(promotables) < PromoteBuffer
                                         THEN Append(promotables, it)
                                         ELSE promotables]_vars

\* C11 witness: a get has returned an expired item, which is still stored
\* under its key, and has queued no promote message for it.
C11_Witness ==
    \E c \in Callers :
        /\ callers[c].pc = "done" /\ callers[c].op = "Get"
        /\ callers[c].ret # 0
        /\ Expired(items[callers[c].ret], now)
        /\ bucketGet(buckets, callers[c].key) = callers[c].ret
        /\ promotables = <<>>

\* C12: from the moment clear has been served until its caller starts
\* another operation, with no other caller at work, every bucket is empty,
\* the list is empty and size is 0, also after the worker has handled the
\* promote and delete messages that were queued when clear was served.
C12_ClearConsistent ==
    \A c \in Callers :
        ( /\ callers[c].pc = "done" /\ callers[c].op = "Clear"
          /\ \A d \in Callers \ {c} : IsIdle(d) )
        => /\ ItemCount = 0
           /\ list = <<>>
           /\ size = 0

\* C13: a stop that nobody sends beside always returns; when it has returned
\* the worker has left its loop and its drain, with no promote and no delete
\* message left unhandled; the worker leaves the loop only on the closed and
\* empty promotables channel and exits only with the delete channel empty;
\* and after its exit no message is handled: list, size and items stay as
\* they are.
C13_Shutdown ==
    /\ \A c \in Callers :
          (callers[c].pc = "stop_wait") ~>
              (callers[c].pc = "done" /\ callers[c].op = "Stop")
    /\ [](\A c \in Callers :
            (callers[c].pc = "done" /\ callers[c].op = "Stop") =>
                /\ work.pc = "exited"
                /\ promotables = <<>>
                /\ deletables = <<>>)
    /\ [][ /\ (work.pc = "select" /\ work'.pc # "select") =>
                 (work.closed /\ promotables = <<>> /\ work'.pc = "drain")
           /\ (work.pc = "drain" /\ work'.pc # "drain") =>
                 (deletables = <<>> /\ work'.pc = "exited")
           /\ work.pc = "exited" =>
                 /\ work' = work
                 /\ list' = list /\ size' = size /\ items' = items
                 /\ promotables' = promotables /\ deletables' = deletables ]_vars

\* C13 witness: stop has returned after the worker handled promote messages
\* (an item is linked) and the delete message of an item it had not linked.
C13_Witness ==
    \E c \in Callers :
        /\ callers[c].pc = "done" /\ callers[c].op = "Stop"
        /\ \E i \in Ids : InList(list, i)
        /\ \E j \in Ids : ~items[j].element /\ items[j].promotions = Removed

\* C14: there is no state in which the worker waits for the write lock of a
\* bucket while the caller that holds its read lock, inside deleteFunc, is
\* blocked on its send to the full delete channel.
C14_NoLockCycle ==
    \A c \in Callers, b \in 0 .. NumBuckets - 1 :
        ~ ( /\ WorkerWaits(b)
            /\ callers[c].pc = "df_send" /\ callers[c].bkt = b
            /\ callers[c].todo # {}
            /\ Len(deletables) = DeleteBuffer )

\* the ids of the entries linked in the list
Linked == {i \in Ids : InList(list, i)}

\* C15: whenever the worker is between two messages, size is the sum of the
\* weights of the entries linked in the list, and so never negative.
C15_SizeIsSumOfLinked ==
    work.pc = "select" => (size = SumSizes(Linked) /\ size >= 0)

\* the worker has already dropped the entry: by a delete message, by a sweep
\* or with the list that clear replaced
Gone(i) ==
    \/ items[i].promotions = Removed
    \/ items[i].element /\ ~InList(list, i)

\* C16: a delete message for an entry that the worker has already removed
\* changes neither size nor the list.
C16_DeleteIdempotent ==
    [][(WorkerDelete /\ Gone(Head(deletables))) =>
          (size' = size /\ list' = list)]_vars

\* C17: whenever the channels are empty, the worker is at its select and no
\* caller is inside an operation, an entry is linked in the list if and only
\* if it is the entry stored under its key in its bucket and the worker has
\* handled a promote message for it.
C17_LinkedIffResident ==
    ( /\ promotables = <<>> /\ deletables = <<>>
      /\ work.pc = "select"
      /\ \A c \in Callers : IsIdle(c) )
    => \A i \in Ids :
          i < nextId =>
             (InList(list, i) <=> (Stored(buckets, i) /\ items[i].element))

\* C18: every entry that an operation has displaced from its bucket gets a
\* delete message, so that once the operations have returned and the
\* channels are drained it is unlinked, without any sweep having run.
C18_DeletionNeverLost ==
    ( /\ \A c \in Callers : IsIdle(c)
      /\ promotables = <<>> /\ deletables = <<>>
      /\ dropped = 0 )
    => \A i \in Ids :
          (i < nextId /\ ~Stored(buckets, i)) => ~InList(list, i)

\* C19: once the worker has handled a delete message for an entry, linked at
\* that time or not, a promote message for it handled later does not link
\* it and changes neither the order of the list nor size.
C19_StalePromote ==
    [][(WorkerPromote /\ items[Head(promotables)].deleted) =>
          /\ list' = list
          /\ size' = size
          /\ ~InList(list', Head(promotables))]_vars

\* C19 witness: the worker handled the delete message of an entry before
\* the entry's first promote message and, later, that promote: the channels
\* are empty and the entry is marked removed and was never linked.
C19_Witness ==
    \E i \in Ids :
        /\ items[i].deleted /\ ~items[i].element
        /\ items[i].promotions = Removed
        /\ promotables = <<>>
        /\ \E j \in Ids : items[j].deleted /\ items[j].element /\ ~InList(list, j)

\* C20, as claimed: Incr and IncrPromote each pass to promote the entry they
\* created (a miss) or the existing entry they added to (a hit).
C20_BothPromote ==
    [][\A c \in Callers :
          IncrDone(c) =>
             promotables' = promote(promotables,
                                    IF callers[c].item # 0 THEN callers[c].item
                                    ELSE callers[c].existing)]_vars

\* C20, amended: on a miss both variants pass the new entry to promote; on
\* a hit IncrPromote passes the existing entry to promote and Incr sends
\* nothing.
C20_PromoteOnHitOnlyIncrPromote ==
    [][\A c \in Callers :
          IncrDone(c) =>
             /\ callers[c].item # 0 =>
                   promotables' = promote(promotables, callers[c].item)
             /\ (callers[c].item = 0 /\ callers[c].op = "IncrPromote") =>
                   promotables' = promote(promotables, callers[c].existing)
             /\ (callers[c].item = 0 /\ callers[c].op = "Incr") =>
                   promotables' = promotables]_vars

\* C20 witness: an Incr has added to an existing entry and has returned
\* the sum with no promote message queued.
C20_Witness ==
    \E c \in Callers :
        /\ callers[c].pc = "done" /\ callers[c].op = "Incr"
        /\ callers[c].item = 0 /\ callers[c].existing # 0
        /\ callers[c].ret = items[callers[c].existing].val.n
        /\ promotables = <<>>

====
